---- MODULE Spec2Model ----
(***************************************************************************)
(* Model of ppcls/arch/backbone/model_zoo/xception_deeplab.py:             *)
(* the parameter tables, check_data / check_stride, the construction of    *)
(* Xception_Block and XceptionDeeplab (one step per block), the factory    *)
(* functions with _load_pretrained, and the shape bookkeeping of the       *)
(* forward pass.                                                           *)
(*                                                                         *)
(* Python values whose type decides a branch are tagged: an int n is       *)
(* [int |-> n], a list l is [list |-> l]; the elements of a list are kept  *)
(* untagged and are tagged where the source hands them on.                 *)
(***************************************************************************)
EXTENDS Integers, Sequences, FiniteSets, TLC

VARIABLES
    pc,            \* position in the running call
    call,          \* the call being executed and its arguments
    result,        \* "none", "model", "Exception", "AssertionError", "RuntimeError"
    stem,          \* <<self._conv1, self._conv2>> once created
    block_num,     \* self.block_num
    strides,       \* self.strides
    chns,          \* self.chns
    self_stride,   \* self.stride
    s,             \* local s of XceptionDeeplab.__init__
    stride,        \* local stride of XceptionDeeplab.__init__
    i,             \* loop index
    entry_flow,    \* self.entry_flow
    middle_flow,   \* self.middle_flow
    exit_flow_1,   \* self._exit_flow_1 (<<>> while unset, <<block>> once set)
    exit_flow_2,   \* self._exit_flow_2 (<<>> while unset, <<block>> once set)
    fc,            \* self._fc (<<>> while unset)
    url_calls,     \* calls made to load_dygraph_pretrain_from_url
    path_calls,    \* calls made to load_dygraph_pretrain
    x,             \* shape of the tensor in the forward pass
    adds,          \* operands of every paddle.add executed in the forward pass
    fwd_i,         \* position of the forward pass in entry_flow / middle_flow
    blk            \* the Xception_Block under construction (direct call)

vars == <<pc, call, result, stem, block_num, strides, chns, self_stride, s,
          stride, i, entry_flow, middle_flow, exit_flow_1, exit_flow_2, fc,
          url_calls, path_calls, x, adds, fwd_i, blk>>

builder_vars == <<stem, block_num, strides, chns, self_stride, s, stride, i,
                  entry_flow, middle_flow, exit_flow_1, exit_flow_2, fc>>

loader_vars == <<url_calls, path_calls>>

forward_vars == <<x, adds, fwd_i>>

----------------------------------------------------------------------------
(* Bounds of the enumerated inputs *)

MaxLen == 4                 \* longest list handed to Xception_Block

ChannelVals == {64, 128}    \* channel counts handed to Xception_Block

StrideVals == {1, 2}        \* strides handed to Xception_Block

FilterVals == {3}           \* filter sizes handed to Xception_Block

InputSizes == {224, 299}    \* height = width of the input image

ClassDims == {1000, 102}    \* class_dim

Backbones == {"xception_41", "xception_65", "xception_71", "xception_101"}

PathVals == {"/some/path"}

----------------------------------------------------------------------------
(* Tagged Python values *)

IntV(n) == [int |-> n]

ListV(l) == [list |-> l]

IsInt(d) == DOMAIN d = {"int"}

Last(l) == l[Len(l)]

Range(l) == {l[k] : k \in 1..Len(l)}

----------------------------------------------------------------------------
(* Module-level tables and helpers *)

MODEL_URLS ==
    [Xception41_deeplab |->
        "https://paddle-imagenet-models-name.bj.bcebos.com/dygraph/Xception41_deeplab_pretrained.pdparams",
     Xception65_deeplab |->
        "https://paddle-imagenet-models-name.bj.bcebos.com/dygraph/Xception65_deeplab_pretrained.pdparams"]

all == DOMAIN MODEL_URLS

\* check_data accepting any list of at least number elements
check_data_bad(data, number) ==
    IF IsInt(data)
    THEN [ok |-> TRUE, val |-> [k \in 1..number |-> data.int]]
    ELSE IF Len(data.list) >= number
         THEN [ok |-> TRUE, val |-> data.list]
         ELSE [ok |-> FALSE, val |-> <<>>]

check_data(data, number) ==
    IF IsInt(data)
    THEN [ok |-> TRUE, val |-> [k \in 1..number |-> data.int]]
    ELSE IF Len(data.list) = number
         THEN [ok |-> TRUE, val |-> data.list]
         ELSE [ok |-> FALSE, val |-> <<>>]

\* check_stride with a strict comparison
check_stride_lt(s_, os) == s_ < os

check_stride(s_, os) == s_ <= os

SupportedBackbones == {"xception_65", "xception_41", "xception_71"}

exit_flow_params ==
    <<2, ListV(<<2, 1>>), ListV(<<<<728, 1024, 1024>>, <<1536, 1536, 2048>>>>)>>

\* the table with the xception_41 middle-flow count under xception_65
gen_bottleneck_params_bad(backbone) ==
    CASE backbone = "xception_65" ->
            [entry_flow  |-> <<3, ListV(<<2, 2, 2>>), ListV(<<128, 256, 728>>)>>,
             middle_flow |-> <<8, IntV(1), IntV(728)>>,
             exit_flow   |-> exit_flow_params]
      [] backbone = "xception_41" ->
            [entry_flow  |-> <<3, ListV(<<2, 2, 2>>), ListV(<<128, 256, 728>>)>>,
             middle_flow |-> <<8, IntV(1), IntV(728)>>,
             exit_flow   |-> exit_flow_params]
      [] backbone = "xception_71" ->
            [entry_flow  |-> <<5, ListV(<<2, 1, 2, 1, 2>>),
                               ListV(<<128, 256, 256, 728, 728>>)>>,
             middle_flow |-> <<16, IntV(1), IntV(728)>>,
             exit_flow   |-> exit_flow_params]

gen_bottleneck_params(backbone) ==
    CASE backbone = "xception_65" ->
            [entry_flow  |-> <<3, ListV(<<2, 2, 2>>), ListV(<<128, 256, 728>>)>>,
             middle_flow |-> <<16, IntV(1), IntV(728)>>,
             exit_flow   |-> exit_flow_params]
      [] backbone = "xception_41" ->
            [entry_flow  |-> <<3, ListV(<<2, 2, 2>>), ListV(<<128, 256, 728>>)>>,
             middle_flow |-> <<8, IntV(1), IntV(728)>>,
             exit_flow   |-> exit_flow_params]
      [] backbone = "xception_71" ->
            [entry_flow  |-> <<5, ListV(<<2, 1, 2, 1, 2>>),
                               ListV(<<128, 256, 256, 728, 728>>)>>,
             middle_flow |-> <<16, IntV(1), IntV(728)>>,
             exit_flow   |-> exit_flow_params]

output_stride == 32

repeat_number == 3

----------------------------------------------------------------------------
(* Layers *)

\* Output size of a convolution along one spatial dimension
ConvOut(h, k, st, p, d) == ((h + 2 * p - d * (k - 1) - 1) \div st) + 1

ConvBNLayer(input_channels, output_channels, filter_size, stride_, padding, act) ==
    [kind |-> "ConvBNLayer",
     input_channels |-> input_channels, output_channels |-> output_channels,
     filter |-> filter_size, stride |-> stride_, padding |-> padding,
     dilation |-> 1, act |-> act]

Seperate_Conv(input_channels, output_channels, stride_, filter, dilation, act) ==
    [kind |-> "Seperate_Conv",
     input_channels |-> input_channels, output_channels |-> output_channels,
     filter |-> filter, stride |-> stride_,
     padding |-> (filter \div 2) * dilation,
     dilation |-> dilation, act |-> act]

\* forward of ConvBNLayer and of Seperate_Conv on a shape [c, h]: the depthwise
\* or dense convolution needs c = in_channels; the pointwise convolution of a
\* Seperate_Conv has kernel 1, stride 1, padding 0 and keeps h
LayerForward(l, t) ==
    IF t.c = l.input_channels
    THEN [ok |-> TRUE,
          x  |-> [c |-> l.output_channels,
                  h |-> ConvOut(t.h, l.filter, l.stride, l.padding, l.dilation)]]
    ELSE [ok |-> FALSE, x |-> t]

----------------------------------------------------------------------------
(* Xception_Block *)

act_of(activation_fn_in_separable_conv) ==
    IF activation_fn_in_separable_conv THEN "relu" ELSE "None"

\* the three separable convolutions, Xception_Block.__init__ lines 191-237
XB_convs(input_channels, oc, st, fs, dilation, activation_fn_in_separable_conv) ==
    <<Seperate_Conv(input_channels, oc[1], st[1], fs[1], dilation,
                    act_of(activation_fn_in_separable_conv)),
      Seperate_Conv(oc[1], oc[2], st[2], fs[2], dilation,
                    act_of(activation_fn_in_separable_conv)),
      Seperate_Conv(oc[2], oc[3], st[3], fs[3], dilation,
                    act_of(activation_fn_in_separable_conv))>>

\* the shortcut taking the first output channel count
XB_short_bad(input_channels, oc, st, skip_conv, has_skip) ==
    IF has_skip /\ skip_conv
    THEN <<ConvBNLayer(input_channels, oc[1], 1, Last(st), 0, "None")>>
    ELSE <<>>

\* the shortcut, Xception_Block.__init__ lines 239-246
XB_short(input_channels, oc, st, skip_conv, has_skip) ==
    IF has_skip /\ skip_conv
    THEN <<ConvBNLayer(input_channels, Last(oc), 1, Last(st), 0, "None")>>
    ELSE <<>>

NoLayer == [ok |-> FALSE]

\* Xception_Block.__init__ as one expression: the block, or the failure of
\* one of its three check_data calls
Xception_Block(input_channels, output_channels, strides_, filter_size, dilation, skip_conv, has_skip, activation_fn_in_separable_conv, name) ==
    LET oc == check_data(output_channels, repeat_number)
        fs == check_data(filter_size, repeat_number)
        st == check_data(strides_, repeat_number)
    IN  IF ~(oc.ok /\ fs.ok /\ st.ok)
        THEN NoLayer
        ELSE [ok |-> TRUE,
              name |-> name,
              input_channels |-> input_channels,
              output_channels |-> oc.val,
              filter_size |-> fs.val,
              strides |-> st.val,
              dilation |-> dilation,
              has_skip |-> has_skip,
              skip_conv |-> skip_conv,
              activation_fn_in_separable_conv |-> activation_fn_in_separable_conv,
              convs |-> XB_convs(input_channels, oc.val, st.val, fs.val, dilation,
                                 activation_fn_in_separable_conv),
              short |-> XB_short(input_channels, oc.val, st.val, skip_conv, has_skip)]

\* paddle.add broadcasts: two sizes are compatible when equal or when one is 1
Compatible(a, b) == a = b \/ a = 1 \/ b = 1

Broadcast(a, b) == IF a = 1 THEN b ELSE a

\* Xception_Block.forward on a shape; F.relu keeps the shape
XB_forward(b, t) ==
    LET x1 == LayerForward(b.convs[1], t)
        x2 == LayerForward(b.convs[2], x1.x)
        x3 == LayerForward(b.convs[3], x2.x)
        main_ok == x1.ok /\ x2.ok /\ x3.ok
        sk == IF b.skip_conv THEN LayerForward(b.short[1], t)
              ELSE [ok |-> TRUE, x |-> t]
    IN  IF ~main_ok THEN [ok |-> FALSE, x |-> t, add |-> <<>>]
        ELSE IF b.has_skip
        THEN IF sk.ok /\ Compatible(x3.x.c, sk.x.c) /\ Compatible(x3.x.h, sk.x.h)
             THEN [ok |-> TRUE,
                   x |-> [c |-> Broadcast(x3.x.c, sk.x.c),
                          h |-> Broadcast(x3.x.h, sk.x.h)],
                   add |-> <<[block |-> b.name, x |-> x3.x, skip |-> sk.x]>>]
             ELSE [ok |-> FALSE, x |-> t, add |-> <<>>]
        ELSE [ok |-> TRUE, x |-> x3.x, add |-> <<>>]

----------------------------------------------------------------------------
(* Calls *)

\* Xception65_deeplab building the xception_41 backbone
Xception65_deeplab_41 ==
    [backbone |-> "xception_41", model_url |-> MODEL_URLS["Xception65_deeplab"]]

\* the literals of the two factory functions
Xception41_deeplab ==
    [backbone |-> "xception_41", model_url |-> MODEL_URLS["Xception41_deeplab"]]

Xception65_deeplab ==
    [backbone |-> "xception_65", model_url |-> MODEL_URLS["Xception65_deeplab"]]

\* the factory functions the module defines, by name
Factories ==
    [Xception41_deeplab |-> Xception41_deeplab,
     Xception65_deeplab |-> Xception65_deeplab]

PretrainedVals ==
    {[bool |-> FALSE], [bool |-> TRUE]}
        \cup {[str |-> p] : p \in PathVals}
        \cup {[int |-> n] : n \in {123, 1}}

NoCall ==
    [fn |-> "none", backbone |-> "", model_url |-> "", class_dim |-> 0,
     pretrained |-> [bool |-> FALSE], use_ssld |-> FALSE]

NoBlk ==
    [input_channels |-> 0, output_channels |-> IntV(0), strides |-> IntV(0),
     filter_size |-> IntV(0), dilation |-> 0, skip_conv |-> FALSE,
     has_skip |-> FALSE, activation_fn_in_separable_conv |-> FALSE,
     oc |-> <<>>, fs |-> <<>>, st |-> <<>>, sublayers |-> <<>>]

Init ==
    /\ pc = "idle"
    /\ call = NoCall
    /\ result = "none"
    /\ stem = <<>>
    /\ block_num = 0
    /\ strides = <<>>
    /\ chns = <<>>
    /\ self_stride = 0
    /\ s = 0
    /\ stride = 0
    /\ i = 0
    /\ entry_flow = <<>>
    /\ middle_flow = <<>>
    /\ exit_flow_1 = <<>>
    /\ exit_flow_2 = <<>>
    /\ fc = <<>>
    /\ url_calls = <<>>
    /\ path_calls = <<>>
    /\ x = [c |-> 0, h |-> 0]
    /\ adds = <<>>
    /\ fwd_i = 0
    /\ blk = NoBlk

\* Xception41_deeplab(pretrained, use_ssld, class_dim=...) or
\* Xception65_deeplab(...) is called
CallFactory ==
    /\ pc = "idle"
    /\ pc' = "construct"
    /\ \E fn \in DOMAIN Factories, pretrained \in PretrainedVals,
          use_ssld \in BOOLEAN, class_dim \in ClassDims :
            call' = [fn |-> fn, backbone |-> Factories[fn].backbone,
                     model_url |-> Factories[fn].model_url,
                     class_dim |-> class_dim,
                     pretrained |-> pretrained, use_ssld |-> use_ssld]
    /\ UNCHANGED <<result, builder_vars, loader_vars, forward_vars, blk>>

\* XceptionDeeplab(backbone, class_dim) is called directly
CallXceptionDeeplab ==
    /\ pc = "idle"
    /\ pc' = "construct"
    /\ \E backbone \in Backbones, class_dim \in ClassDims :
            call' = [fn |-> "XceptionDeeplab", backbone |-> backbone,
                     model_url |-> "", class_dim |-> class_dim,
                     pretrained |-> [bool |-> FALSE], use_ssld |-> FALSE]
    /\ UNCHANGED <<result, builder_vars, loader_vars, forward_vars, blk>>

----------------------------------------------------------------------------
(* XceptionDeeplab.__init__ *)

BlockName(backbone, stage, n) ==
    backbone \o "/" \o stage \o "/block" \o ToString(n)

\* lines 308-309, 329-330, 349-350, 356-357: the stride the accumulator takes
clip(s_, st) == IF check_stride(s_ * st, output_stride) THEN st ELSE 1

\* the entry-flow block taking self.chns[i] as its input channel count
EntryFlowBlock_next(backbone, i_, chns_, self_stride_) ==
    Xception_Block(IF i_ = 0 THEN 64 ELSE chns_[i_ + 1],
                   IntV(chns_[i_ + 1]),
                   ListV(<<1, 1, self_stride_>>),
                   IntV(3), 1, TRUE, TRUE, FALSE,
                   BlockName(backbone, "entry_flow", i_ + 1))

\* lines 312-316, at loop index i_ (0-based), with self.chns and self.stride
EntryFlowBlock(backbone, i_, chns_, self_stride_) ==
    Xception_Block(IF i_ = 0 THEN 64 ELSE chns_[i_],
                   IntV(chns_[i_ + 1]),
                   ListV(<<1, 1, self_stride_>>),
                   IntV(3), 1, TRUE, TRUE, FALSE,
                   BlockName(backbone, "entry_flow", i_ + 1))

\* the middle-flow block built with has_skip=False
MiddleFlowBlock_noskip(backbone, i_, strides_) ==
    Xception_Block(728,
                   IntV(728),
                   ListV(<<1, 1, strides_[i_ + 1]>>),
                   IntV(3), 1, FALSE, FALSE, FALSE,
                   BlockName(backbone, "middle_flow", i_ + 1))

\* lines 333-338, at loop index i_ (0-based), with self.strides
MiddleFlowBlock(backbone, i_, strides_) ==
    Xception_Block(728,
                   IntV(728),
                   ListV(<<1, 1, strides_[i_ + 1]>>),
                   IntV(3), 1, FALSE, TRUE, FALSE,
                   BlockName(backbone, "middle_flow", i_ + 1))

\* lines 351-354, with self.chns and the local stride
ExitFlowBlock1(backbone, chns_, stride_) ==
    Xception_Block(728,
                   ListV(chns_[1]),
                   ListV(<<1, 1, stride_>>),
                   IntV(3), 1, TRUE, TRUE, FALSE,
                   BlockName(backbone, "exit_flow", 1))

\* lines 358-364, with self.chns and the local stride
ExitFlowBlock2(backbone, chns_, stride_) ==
    Xception_Block(Last(chns_[1]),
                   ListV(chns_[2]),
                   ListV(<<1, 1, stride_>>),
                   IntV(3), 2, TRUE, FALSE, TRUE,
                   BlockName(backbone, "exit_flow", 2))

\* line 371-375: the in and out feature counts of self._fc
Head_fc(chns_, class_dim) ==
    [in_features |-> Last(chns_[2]), out_features |-> class_dim]

\* an exception leaves the call
Raise(e) ==
    /\ pc' = "raised"
    /\ result' = e

\* line 274, unsupported backbone: gen_bottleneck_params raises
ConstructRaise ==
    /\ pc = "construct"
    /\ call.backbone \notin SupportedBackbones
    /\ Raise("Exception")
    /\ UNCHANGED <<call, builder_vars, loader_vars, forward_vars, blk>>

\* lines 272-305: the stem and the entry-flow parameters
EntryInit ==
    /\ pc = "construct"
    /\ call.backbone \in SupportedBackbones
    /\ LET p  == gen_bottleneck_params(call.backbone)["entry_flow"]
           st == check_data(p[2], p[1])
           ch == check_data(p[3], p[1])
       IN  /\ stem' = <<ConvBNLayer(3, 32, 3, 2, 1, "relu"),
                        ConvBNLayer(32, 64, 3, 1, 1, "relu")>>
           /\ block_num' = p[1]
           /\ IF st.ok /\ ch.ok
              THEN /\ strides' = st.val
                   /\ chns' = ch.val
                   /\ self_stride' = 2
                   /\ s' = 2
                   /\ i' = 0
                   /\ pc' = "entry_flow"
                   /\ UNCHANGED result
              ELSE /\ Raise("AssertionError")
                   /\ UNCHANGED <<strides, chns, self_stride, s, i>>
    /\ UNCHANGED <<call, stride, entry_flow, middle_flow, exit_flow_1,
                   exit_flow_2, fc, loader_vars, forward_vars, blk>>

\* lines 307-318: one iteration of the entry-flow loop
EntryBlock ==
    /\ pc = "entry_flow"
    /\ i < block_num
    /\ LET st == clip(s, strides[i + 1])
           b  == EntryFlowBlock(call.backbone, i, chns, self_stride)
       IN  IF b.ok
           THEN /\ stride' = st
                /\ entry_flow' = Append(entry_flow, b)
                /\ s' = s * st
                /\ i' = i + 1
                /\ UNCHANGED <<pc, result>>
           ELSE /\ Raise("AssertionError")
                /\ stride' = st
                /\ UNCHANGED <<entry_flow, s, i>>
    /\ UNCHANGED <<call, stem, block_num, strides, chns, self_stride,
                   middle_flow, exit_flow_1, exit_flow_2, fc,
                   loader_vars, forward_vars, blk>>

\* lines 319-326: the entry-flow loop ends, the middle-flow parameters
MiddleInit ==
    /\ pc = "entry_flow"
    /\ i = block_num
    /\ LET p  == gen_bottleneck_params(call.backbone)["middle_flow"]
           st == check_data(p[2], p[1])
           ch == check_data(p[3], p[1])
       IN  /\ block_num' = p[1]
           /\ self_stride' = s
           /\ IF st.ok /\ ch.ok
              THEN /\ strides' = st.val
                   /\ chns' = ch.val
                   /\ i' = 0
                   /\ pc' = "middle_flow"
                   /\ UNCHANGED result
              ELSE /\ Raise("AssertionError")
                   /\ UNCHANGED <<strides, chns, i>>
    /\ UNCHANGED <<call, stem, s, stride, entry_flow, middle_flow,
                   exit_flow_1, exit_flow_2, fc, loader_vars, forward_vars, blk>>

\* lines 328-340: one iteration of the middle-flow loop
MiddleBlock ==
    /\ pc = "middle_flow"
    /\ i < block_num
    /\ LET st == clip(s, strides[i + 1])
           b  == MiddleFlowBlock(call.backbone, i, strides)
       IN  IF b.ok
           THEN /\ stride' = st
                /\ middle_flow' = Append(middle_flow, b)
                /\ s' = s * st
                /\ i' = i + 1
                /\ UNCHANGED <<pc, result>>
           ELSE /\ Raise("AssertionError")
                /\ stride' = st
                /\ UNCHANGED <<middle_flow, s, i>>
    /\ UNCHANGED <<call, stem, block_num, strides, chns, self_stride,
                   entry_flow, exit_flow_1, exit_flow_2, fc,
                   loader_vars, forward_vars, blk>>

\* lines 341-348: the middle-flow loop ends, the exit-flow parameters
ExitInit ==
    /\ pc = "middle_flow"
    /\ i = block_num
    /\ LET p  == gen_bottleneck_params(call.backbone)["exit_flow"]
           st == check_data(p[2], p[1])
           ch == check_data(p[3], p[1])
       IN  /\ block_num' = p[1]
           /\ self_stride' = s
           /\ IF st.ok /\ ch.ok
              THEN /\ strides' = st.val
                   /\ chns' = ch.val
                   /\ pc' = "exit_flow_1"
                   /\ UNCHANGED result
              ELSE /\ Raise("AssertionError")
                   /\ UNCHANGED <<strides, chns>>
    /\ UNCHANGED <<call, stem, s, stride, i, entry_flow, middle_flow,
                   exit_flow_1, exit_flow_2, fc, loader_vars, forward_vars, blk>>

\* lines 349-355: exit-flow block 1
ExitBlock1 ==
    /\ pc = "exit_flow_1"
    /\ LET st == clip(s, strides[1])
           b  == ExitFlowBlock1(call.backbone, chns, st)
       IN  /\ stride' = st
           /\ IF b.ok
              THEN /\ exit_flow_1' = <<b>>
                   /\ s' = s * st
                   /\ pc' = "exit_flow_2"
                   /\ UNCHANGED result
              ELSE /\ Raise("AssertionError")
                   /\ UNCHANGED <<exit_flow_1, s>>
    /\ UNCHANGED <<call, stem, block_num, strides, chns, self_stride, i,
                   entry_flow, middle_flow, exit_flow_2, fc,
                   loader_vars, forward_vars, blk>>

\* lines 356-365: exit-flow block 2
ExitBlock2 ==
    /\ pc = "exit_flow_2"
    /\ LET st == clip(s, strides[2])
           b  == ExitFlowBlock2(call.backbone, chns, st)
       IN  /\ stride' = st
           /\ IF b.ok
              THEN /\ exit_flow_2' = <<b>>
                   /\ s' = s * st
                   /\ pc' = "head"
                   /\ UNCHANGED result
              ELSE /\ Raise("AssertionError")
                   /\ UNCHANGED <<exit_flow_2, s>>
    /\ UNCHANGED <<call, stem, block_num, strides, chns, self_stride, i,
                   entry_flow, middle_flow, exit_flow_1, fc,
                   loader_vars, forward_vars, blk>>

\* lines 367-375: the head; the constructor returns, to the caller of
\* XceptionDeeplab or into the factory function
ClassifierHead ==
    /\ pc = "head"
    /\ self_stride' = s
    /\ fc' = <<Head_fc(chns, call.class_dim)>>
    /\ IF call.fn = "XceptionDeeplab"
       THEN pc' = "done" /\ result' = "model"
       ELSE pc' = "load" /\ UNCHANGED result
    /\ UNCHANGED <<call, stem, block_num, strides, chns, s, stride, i,
                   entry_flow, middle_flow, exit_flow_1, exit_flow_2,
                   loader_vars, forward_vars, blk>>

----------------------------------------------------------------------------
(* _load_pretrained and the return of the factory function *)

IsFalse(p) == DOMAIN p = {"bool"} /\ ~p.bool

\* pretrained == True, which the int 1 satisfies, in place of `is True`
IsTrue_eq(p) ==
    \/ DOMAIN p = {"bool"} /\ p.bool
    \/ DOMAIN p = {"int"} /\ p.int = 1

IsTrue(p) == DOMAIN p = {"bool"} /\ p.bool

IsStr(p) == DOMAIN p = {"str"}

\* lines 393-403, called at lines 408 and 414
LoadPretrained ==
    /\ pc = "load"
    /\ IF IsFalse(call.pretrained)
       THEN /\ pc' = "return"
            /\ UNCHANGED <<url_calls, path_calls, result>>
       ELSE IF IsTrue(call.pretrained)
       THEN /\ url_calls' = Append(url_calls,
                                [model_url |-> call.model_url,
                                 use_ssld |-> call.use_ssld])
            /\ pc' = "return"
            /\ UNCHANGED <<path_calls, result>>
       ELSE IF IsStr(call.pretrained)
       THEN /\ path_calls' = Append(path_calls, [path |-> call.pretrained.str])
            /\ pc' = "return"
            /\ UNCHANGED <<url_calls, result>>
       ELSE /\ Raise("RuntimeError")
            /\ UNCHANGED <<url_calls, path_calls>>
    /\ UNCHANGED <<call, builder_vars, forward_vars, blk>>

\* lines 409 and 415: return model
FactoryReturn ==
    /\ pc = "return"
    /\ pc' = "done"
    /\ result' = "model"
    /\ UNCHANGED <<call, builder_vars, loader_vars, forward_vars, blk>>

----------------------------------------------------------------------------
(* XceptionDeeplab.forward, on the shape of the tensor *)

FwdFail ==
    /\ pc' = "fwd_raised"
    /\ UNCHANGED <<x, adds, fwd_i>>

\* lines 378-379: the two stem convolutions on an input of h by h pixels
FwdStem ==
    /\ pc = "done"
    /\ result = "model"
    /\ \E h \in InputSizes :
         LET x1 == LayerForward(stem[1], [c |-> 3, h |-> h])
             x2 == LayerForward(stem[2], x1.x)
         IN  IF x1.ok /\ x2.ok
             THEN /\ x' = x2.x
                  /\ fwd_i' = 0
                  /\ pc' = "fwd_entry"
                  /\ UNCHANGED adds
             ELSE FwdFail
    /\ UNCHANGED <<call, result, builder_vars, loader_vars, blk>>

\* one block of a list of blocks applied to x
FwdBlock(b, next_pc, next_i) ==
    LET r == XB_forward(b, x)
    IN  IF r.ok
        THEN /\ x' = r.x
             /\ adds' = adds \o r.add
             /\ fwd_i' = next_i
             /\ pc' = next_pc
        ELSE FwdFail

\* lines 380-381: one iteration over self.entry_flow
FwdEntry ==
    /\ pc = "fwd_entry"
    /\ fwd_i < Len(entry_flow)
    /\ IF fwd_i + 1 < Len(entry_flow)
       THEN FwdBlock(entry_flow[fwd_i + 1], "fwd_entry", fwd_i + 1)
       ELSE FwdBlock(entry_flow[fwd_i + 1], "fwd_middle", 0)
    /\ UNCHANGED <<call, result, builder_vars, loader_vars, blk>>

\* lines 382-383: one iteration over self.middle_flow
FwdMiddle ==
    /\ pc = "fwd_middle"
    /\ fwd_i < Len(middle_flow)
    /\ IF fwd_i + 1 < Len(middle_flow)
       THEN FwdBlock(middle_flow[fwd_i + 1], "fwd_middle", fwd_i + 1)
       ELSE FwdBlock(middle_flow[fwd_i + 1], "fwd_exit_1", 0)
    /\ UNCHANGED <<call, result, builder_vars, loader_vars, blk>>

\* line 384
FwdExit1 ==
    /\ pc = "fwd_exit_1"
    /\ FwdBlock(exit_flow_1[1], "fwd_exit_2", 0)
    /\ UNCHANGED <<call, result, builder_vars, loader_vars, blk>>

\* line 385
FwdExit2 ==
    /\ pc = "fwd_exit_2"
    /\ FwdBlock(exit_flow_2[1], "fwd_head", 0)
    /\ UNCHANGED <<call, result, builder_vars, loader_vars, blk>>

\* lines 386-390: dropout keeps the shape, the pool leaves 1 by 1 pixels, the
\* squeeze removes them (h = 0), the linear layer needs in_features channels
FwdHead ==
    /\ pc = "fwd_head"
    /\ IF x.c = fc[1].in_features
       THEN /\ x' = [c |-> fc[1].out_features, h |-> 0]
            /\ pc' = "fwd_done"
            /\ UNCHANGED <<adds, fwd_i>>
       ELSE FwdFail
    /\ UNCHANGED <<call, result, builder_vars, loader_vars, blk>>

----------------------------------------------------------------------------
(* Xception_Block.__init__ called directly, one step per statement *)

Seqs(S, n) == UNION {[1..k -> S] : k \in 0..n}

DataVals(S) == {IntV(v) : v \in S} \cup {ListV(l) : l \in Seqs(S, MaxLen)}

\* Xception_Block(input_channels, output_channels, strides, filter_size,
\* skip_conv=..., has_skip=...) is called
XB_Call ==
    /\ pc = "idle"
    /\ pc' = "xb_184"
    /\ \E input_channels \in ChannelVals,
          output_channels \in DataVals(ChannelVals),
          strides_ \in DataVals(StrideVals),
          filter_size \in DataVals(FilterVals),
          skip_conv \in BOOLEAN, has_skip \in BOOLEAN :
            blk' = [input_channels |-> input_channels,
                    output_channels |-> output_channels,
                    strides |-> strides_,
                    filter_size |-> filter_size,
                    dilation |-> 1,
                    skip_conv |-> skip_conv,
                    has_skip |-> has_skip,
                    activation_fn_in_separable_conv |-> FALSE,
                    oc |-> <<>>, fs |-> <<>>, st |-> <<>>, sublayers |-> <<>>]
    /\ call' = [NoCall EXCEPT !.fn = "Xception_Block"]
    /\ UNCHANGED <<result, builder_vars, loader_vars, forward_vars>>

\* line 184
XB_CheckOutputChannels ==
    /\ pc = "xb_184"
    /\ LET r == check_data(blk.output_channels, repeat_number)
       IN  IF r.ok
           THEN /\ blk' = [blk EXCEPT !.oc = r.val]
                /\ pc' = "xb_185"
                /\ UNCHANGED result
           ELSE /\ Raise("AssertionError")
                /\ UNCHANGED blk
    /\ UNCHANGED <<call, builder_vars, loader_vars, forward_vars>>

\* line 185
XB_CheckFilterSize ==
    /\ pc = "xb_185"
    /\ LET r == check_data(blk.filter_size, repeat_number)
       IN  IF r.ok
           THEN /\ blk' = [blk EXCEPT !.fs = r.val]
                /\ pc' = "xb_186"
                /\ UNCHANGED result
           ELSE /\ Raise("AssertionError")
                /\ UNCHANGED blk
    /\ UNCHANGED <<call, builder_vars, loader_vars, forward_vars>>

\* line 186
XB_CheckStrides ==
    /\ pc = "xb_186"
    /\ LET r == check_data(blk.strides, repeat_number)
       IN  IF r.ok
           THEN /\ blk' = [blk EXCEPT !.st = r.val]
                /\ pc' = "xb_191"
                /\ UNCHANGED result
           ELSE /\ Raise("AssertionError")
                /\ UNCHANGED blk
    /\ UNCHANGED <<call, builder_vars, loader_vars, forward_vars>>

\* lines 188-237
XB_CreateConvs ==
    /\ pc = "xb_191"
    /\ blk' = [blk EXCEPT !.sublayers =
                  XB_convs(blk.input_channels, blk.oc, blk.st, blk.fs,
                           blk.dilation, blk.activation_fn_in_separable_conv)]
    /\ pc' = "xb_239"
    /\ UNCHANGED <<call, result, builder_vars, loader_vars, forward_vars>>

\* lines 239-246
XB_CreateShort ==
    /\ pc = "xb_239"
    /\ blk' = [blk EXCEPT !.sublayers =
                  blk.sublayers \o XB_short(blk.input_channels, blk.oc, blk.st,
                                            blk.skip_conv, blk.has_skip)]
    /\ pc' = "xb_done"
    /\ result' = "block"
    /\ UNCHANGED <<call, builder_vars, loader_vars, forward_vars>>

----------------------------------------------------------------------------
(* Specifications *)

Next ==
    \/ CallFactory
    \/ CallXceptionDeeplab
    \/ ConstructRaise
    \/ EntryInit
    \/ EntryBlock
    \/ MiddleInit
    \/ MiddleBlock
    \/ ExitInit
    \/ ExitBlock1
    \/ ExitBlock2
    \/ ClassifierHead
    \/ LoadPretrained
    \/ FactoryReturn
    \/ FwdStem
    \/ FwdEntry
    \/ FwdMiddle
    \/ FwdExit1
    \/ FwdExit2
    \/ FwdHead

Spec == Init /\ [][Next]_vars

NextBlock ==
    \/ XB_Call
    \/ XB_CheckOutputChannels
    \/ XB_CheckFilterSize
    \/ XB_CheckStrides
    \/ XB_CreateConvs
    \/ XB_CreateShort

SpecBlock == Init /\ [][NextBlock]_vars

----------------------------------------------------------------------------
(* Derived notions used by the properties *)

\* the blocks built so far, in construction order, which is the forward order
AllBlocks == entry_flow \o middle_flow \o exit_flow_1 \o exit_flow_2

RECURSIVE ProdLastStride(_)
ProdLastStride(bs) ==
    IF Len(bs) = 0 THEN 1
    ELSE Head(bs).convs[3].stride * ProdLastStride(Tail(bs))

\* stride of the stem times the third-convolution strides of the blocks built
RealStride ==
    IF Len(stem) = 0 THEN 1
    ELSE stem[1].stride * stem[2].stride * ProdLastStride(AllBlocks)

ConstructionPcs ==
    {"construct", "entry_flow", "middle_flow", "exit_flow_1", "exit_flow_2", "head"}

ForwardPcs ==
    {"fwd_entry", "fwd_middle", "fwd_exit_1", "fwd_exit_2", "fwd_head", "fwd_done"}

Supported == call.backbone \in SupportedBackbones

FactoryCall == call.fn \in DOMAIN Factories

\* _load_pretrained has returned or raised
AfterLoad ==
    \/ pc \in {"return", "done", "fwd_raised"} \cup ForwardPcs
    \/ pc = "raised" /\ result = "RuntimeError"

----------------------------------------------------------------------------
\* the accumulator after k blocks of a stage that starts at s0 with table
\* strides st: multiplied by st[k] when the product stays within 32
RECURSIVE C1_Acc(_, _, _)
C1_Acc(s0, st, k) ==
    IF k = 0 THEN s0
    ELSE LET p == C1_Acc(s0, st, k - 1)
         IN  IF p * st[k] <= 32 THEN p * st[k] ELSE p

(* C1: for the three supported backbones the construction never raises and  *)
(* never stops before the constructor has returned; the accumulator s       *)
(* starts at 2, is multiplied after every block by that block's clipped     *)
(* stride, and is at most output_stride = 32 in every state (as is          *)
(* self.stride, which receives it at the end of each stage).                *)

C1_StrideBounded ==
    Supported =>
        /\ s <= 32
        /\ self_stride <= 32
        /\ output_stride = 32
        /\ ~(pc = "raised" /\ result \in {"Exception", "AssertionError"})
        /\ (pc \in ConstructionPcs => ENABLED Next)
        /\ (pc = "entry_flow" => self_stride = 2 /\ s = C1_Acc(2, strides, i))
        /\ (pc = "middle_flow" => s = C1_Acc(self_stride, strides, i))
        /\ (pc = "exit_flow_1" => s = self_stride)
        /\ (pc = "exit_flow_2" => s = C1_Acc(self_stride, strides, 1))
        /\ (pc = "head" => s = C1_Acc(self_stride, strides, 2))
        /\ (Len(fc) = 1 => s = self_stride)

C1_Witness ==
    /\ pc = "done"
    /\ call.backbone = "xception_71"
    /\ result = "model"
    /\ s = 32
    /\ self_stride = 32
    /\ Len(AllBlocks) = 23

(* C2: the stem stride times the third-convolution strides of the blocks    *)
(* built so far is at most 32 in every state of a supported construction.   *)

C2_RealStrideCapped ==
    Supported => RealStride <= 32

(* C3: every block is built with strides [1, 1, e], e being the clipped     *)
(* stride computed for it (the local stride), and the entry flow of         *)
(* xception_71 is built with last strides [2, 1, 2, 1, 2].                  *)

C3_BlockStrides ==
    /\ (pc = "entry_flow" /\ i > 0) => entry_flow[i].strides = <<1, 1, stride>>
    /\ (pc = "middle_flow" /\ i > 0) => middle_flow[i].strides = <<1, 1, stride>>
    /\ pc = "exit_flow_2" => exit_flow_1[1].strides = <<1, 1, stride>>
    /\ pc = "head" => exit_flow_2[1].strides = <<1, 1, stride>>
    /\ (call.backbone = "xception_71" /\ Len(entry_flow) = 5) =>
            [k \in 1..5 |-> entry_flow[k].strides[3]] = <<2, 1, 2, 1, 2>>

(* C4: in a factory call nothing is loaded before the model is built; with  *)
(* pretrained False no loader is ever called; with True the URL loader is   *)
(* called exactly once, with the URL registered under the factory's name    *)
(* and the caller's use_ssld, and the path loader never; with a string the  *)
(* path loader is called exactly once with that string, and the URL loader  *)
(* never; with any other value the call raises RuntimeError, no loader has  *)
(* been called and no model is returned.                                    *)

C4_PretrainedDispatch ==
    FactoryCall =>
        /\ (~AfterLoad => url_calls = <<>> /\ path_calls = <<>>)
        /\ (pc = "load" => Len(fc) = 1 /\ Len(exit_flow_2) = 1)
        /\ IsFalse(call.pretrained) =>
              /\ url_calls = <<>> /\ path_calls = <<>>
              /\ ~(pc = "raised")
        /\ (DOMAIN call.pretrained = {"bool"} /\ call.pretrained.bool) =>
              /\ path_calls = <<>>
              /\ ~(pc = "raised")
              /\ AfterLoad =>
                    url_calls = <<[model_url |-> MODEL_URLS[call.fn],
                                   use_ssld |-> call.use_ssld]>>
        /\ IsStr(call.pretrained) =>
              /\ url_calls = <<>>
              /\ ~(pc = "raised")
              /\ AfterLoad => path_calls = <<[path |-> call.pretrained.str]>>
        /\ DOMAIN call.pretrained \notin {{"bool"}, {"str"}} =>
              /\ url_calls = <<>> /\ path_calls = <<>>
              /\ result # "model"
              /\ AfterLoad => pc = "raised" /\ result = "RuntimeError"

C4_Witness ==
    /\ FactoryCall
    /\ call.pretrained = [int |-> 1]
    /\ pc = "raised"
    /\ result = "RuntimeError"
    /\ Len(fc) = 1
    /\ url_calls = <<>>
    /\ path_calls = <<>>

\* an argument of Xception_Block that passes the check with n = 3
C5_Valid(d) == IsInt(d) \/ Len(d.list) = 3

\* the three-element list Xception_Block is to work with
C5_Norm(d) == IF IsInt(d) THEN <<d.int, d.int, d.int>> ELSE d.list

(* C5: check_data(data, n) turns an int v into n copies of v, returns a     *)
(* list of length n unchanged and fails on a list of any other length; in   *)
(* Xception_Block no sub-layer exists until output_channels, filter_size    *)
(* and strides have all passed it with n = 3, and a call in which one of    *)
(* them fails raises with no sub-layer created.                             *)

C5_CheckData ==
    /\ pc = "idle" =>
          \A n \in 0..(MaxLen + 1) :
              /\ \A v \in StrideVals :
                    /\ check_data(IntV(v), n).ok
                    /\ Len(check_data(IntV(v), n).val) = n
                    /\ \A k \in 1..n : check_data(IntV(v), n).val[k] = v
              /\ \A l \in Seqs(StrideVals, MaxLen) :
                    /\ check_data(ListV(l), n).ok <=> Len(l) = n
                    /\ Len(l) = n => check_data(ListV(l), n).val = l
    /\ pc \in {"xb_185", "xb_186", "xb_191", "xb_239", "xb_done"} =>
          C5_Valid(blk.output_channels) /\ blk.oc = C5_Norm(blk.output_channels)
    /\ pc \in {"xb_186", "xb_191", "xb_239", "xb_done"} =>
          C5_Valid(blk.filter_size) /\ blk.fs = C5_Norm(blk.filter_size)
    /\ pc \in {"xb_191", "xb_239", "xb_done"} =>
          C5_Valid(blk.strides) /\ blk.st = C5_Norm(blk.strides)
    /\ pc \in {"xb_184", "xb_185", "xb_186", "xb_191"} => blk.sublayers = <<>>
    /\ (pc = "raised" /\ call.fn = "Xception_Block") =>
          /\ result = "AssertionError"
          /\ blk.sublayers = <<>>
          /\ ~(/\ C5_Valid(blk.output_channels)
               /\ C5_Valid(blk.filter_size)
               /\ C5_Valid(blk.strides))
    /\ (call.fn = "Xception_Block"
        /\ ~(/\ C5_Valid(blk.output_channels)
             /\ C5_Valid(blk.filter_size)
             /\ C5_Valid(blk.strides))) =>
          blk.sublayers = <<>> /\ pc \notin {"xb_191", "xb_239", "xb_done"}

C5_Witness ==
    /\ pc = "raised"
    /\ result = "AssertionError"
    /\ blk.output_channels = IntV(64)
    /\ blk.oc = <<64, 64, 64>>
    /\ blk.filter_size = ListV(<<3, 3, 3>>)
    /\ blk.fs = <<3, 3, 3>>
    /\ blk.strides = ListV(<<1, 1, 2, 1>>)
    /\ blk.sublayers = <<>>

(* C6 as stated: each of xception_41, xception_65 and xception_71 has a      *)
(* factory function that builds it and whose name has a registered URL, so  *)
(* whichever of the three variants is under construction, some factory      *)
(* builds that variant and can load its registered URL.                     *)

C6_FactoryPerVariant ==
    (pc # "idle" /\ Supported) =>
        \E f \in DOMAIN Factories :
            Factories[f].backbone = call.backbone /\ f \in DOMAIN MODEL_URLS

(* C6 amended: the factory functions are exactly Xception41_deeplab and     *)
(* Xception65_deeplab, the names MODEL_URLS registers; each builds the      *)
(* variant of its name (8 and 16 middle-flow blocks) and hands the URL      *)
(* registered under its name to the URL loader; an xception_71 model is     *)
(* only ever built by calling XceptionDeeplab directly, and no URL is       *)
(* registered for it.                                                       *)

C6_TwoFactories ==
    /\ DOMAIN Factories = all
    /\ all = {"Xception41_deeplab", "Xception65_deeplab"}
    /\ FactoryCall =>
          /\ call.fn = "Xception41_deeplab" => call.backbone = "xception_41"
          /\ call.fn = "Xception65_deeplab" => call.backbone = "xception_65"
          /\ call.model_url = MODEL_URLS[call.fn]
          /\ \A u \in Range(url_calls) : u.model_url = MODEL_URLS[call.fn]
          /\ (result = "model" /\ call.fn = "Xception41_deeplab") =>
                Len(middle_flow) = 8
          /\ (result = "model" /\ call.fn = "Xception65_deeplab") =>
                Len(middle_flow) = 16
    /\ (call.backbone = "xception_71" /\ pc # "idle") =>
          call.fn = "XceptionDeeplab" /\ url_calls = <<>> /\ path_calls = <<>>

C6_Witness ==
    /\ pc = "done"
    /\ result = "model"
    /\ call.fn = "Xception65_deeplab"
    /\ IsTrue(call.pretrained)
    /\ Len(url_calls) = 1
    /\ Len(middle_flow) = 16

\* entry-flow, middle-flow and exit-flow block counts of a variant
C7_Counts(backbone) ==
    CASE backbone = "xception_65" -> <<3, 16, 2>>
      [] backbone = "xception_41" -> <<3, 8, 2>>
      [] backbone = "xception_71" -> <<5, 16, 2>>

(* C7: a constructed xception_65 has 3 entry-flow, 16 middle-flow and 2      *)
(* exit-flow blocks, xception_41 has 3, 8 and 2, xception_71 has 5, 16 and  *)
(* 2; entry_flow and middle_flow hold their blocks in construction order,   *)
(* and never more than those many.                                          *)

C7_BlockCounts ==
    Supported =>
        /\ Len(entry_flow) <= C7_Counts(call.backbone)[1]
        /\ Len(middle_flow) <= C7_Counts(call.backbone)[2]
        /\ Len(exit_flow_1) + Len(exit_flow_2) <= C7_Counts(call.backbone)[3]
        /\ \A k \in 1..Len(entry_flow) :
              entry_flow[k].name = BlockName(call.backbone, "entry_flow", k)
        /\ \A k \in 1..Len(middle_flow) :
              middle_flow[k].name = BlockName(call.backbone, "middle_flow", k)
        /\ pc \in {"middle_flow", "exit_flow_1", "exit_flow_2", "head"} =>
              Len(entry_flow) = C7_Counts(call.backbone)[1]
        /\ pc \in {"exit_flow_1", "exit_flow_2", "head"} =>
              Len(middle_flow) = C7_Counts(call.backbone)[2]
        /\ Len(fc) = 1 =>
              /\ Len(entry_flow) = C7_Counts(call.backbone)[1]
              /\ Len(middle_flow) = C7_Counts(call.backbone)[2]
              /\ Len(exit_flow_1) + Len(exit_flow_2) = C7_Counts(call.backbone)[3]

C7_Witness ==
    /\ pc = "done"
    /\ result = "model"
    /\ call.backbone = "xception_65"
    /\ Len(entry_flow) = 3
    /\ Len(middle_flow) = 16
    /\ Len(exit_flow_1) = 1
    /\ Len(exit_flow_2) = 1

(* C8 as stated: every middle-flow block is built with has_skip = False,    *)
(* and the forward pass adds nothing in a middle-flow block.                *)

C8_MiddleNoSkip ==
    /\ \A b \in Range(middle_flow) : ~b.has_skip
    /\ \A a \in Range(adds) : a.block \notin {b.name : b \in Range(middle_flow)}

(* C8 amended: every middle-flow block is built with has_skip = True (the   *)
(* default) and skip_conv = False, so it has no shortcut layer and its      *)
(* forward pass adds the block input, unprojected, to the result of the     *)
(* three separable convolutions.                                            *)

C8_MiddleIdentitySkip ==
    /\ \A b \in Range(middle_flow) :
          b.has_skip /\ ~b.skip_conv /\ b.short = <<>>
    /\ (pc = "fwd_middle" /\ fwd_i > 0) =>
          /\ Len(adds) = Len(entry_flow) + fwd_i
          /\ adds[Len(adds)].block = middle_flow[fwd_i].name
          /\ adds[Len(adds)].skip = [c |-> 728, h |-> x.h]
    /\ pc \in {"fwd_exit_1", "fwd_exit_2", "fwd_head", "fwd_done"} =>
          \A k \in 1..Len(middle_flow) :
              adds[Len(entry_flow) + k].block = middle_flow[k].name

C8_Witness ==
    /\ pc = "fwd_exit_1"
    /\ call.backbone = "xception_41"
    /\ Len(middle_flow) = 8
    /\ Len(adds) = 11

(* C9: the first block takes the 64 channels the stem produces, every later *)
(* block takes the last output channel count of the block before it, the    *)
(* linear layer takes exit-flow block 2's last output channel count, 2048,  *)
(* and the forward pass never meets a channel mismatch.                     *)

C9_ChannelChain ==
    /\ Len(AllBlocks) > 0 =>
          /\ stem[2].output_channels = 64
          /\ AllBlocks[1].input_channels = 64
    /\ \A k \in 2..Len(AllBlocks) :
          AllBlocks[k].input_channels = Last(AllBlocks[k - 1].output_channels)
    /\ Len(fc) = 1 =>
          /\ fc[1].in_features = Last(exit_flow_2[1].output_channels)
          /\ fc[1].in_features = 2048
    /\ pc # "fwd_raised"

C9_Witness ==
    /\ pc = "fwd_done"
    /\ call.backbone = "xception_71"
    /\ Len(AllBlocks) = 23
    /\ x.c = call.class_dim

(* C10: a block built with a projected skip has a shortcut with the block's *)
(* last output channel count and last stride, and first two strides 1; a    *)
(* block built with an identity skip has input channels equal to its last   *)
(* output channels and strides [1, 1, 1]; every addition of the forward     *)
(* pass has operands of the same channel count and size.                    *)

C10_SkipAgrees ==
    /\ \A b \in Range(AllBlocks) :
          /\ (b.has_skip /\ b.skip_conv) =>
                /\ Len(b.short) = 1
                /\ b.short[1].output_channels = b.convs[3].output_channels
                /\ b.short[1].output_channels = Last(b.output_channels)
                /\ b.short[1].input_channels = b.input_channels
                /\ b.short[1].stride = b.strides[3]
                /\ b.strides[1] = 1 /\ b.strides[2] = 1
                /\ b.convs[1].stride * b.convs[2].stride * b.convs[3].stride
                      = b.short[1].stride
          /\ (b.has_skip /\ ~b.skip_conv) =>
                /\ b.input_channels = Last(b.output_channels)
                /\ b.strides = <<1, 1, 1>>
                /\ b.convs[1].stride * b.convs[2].stride * b.convs[3].stride = 1
    /\ \A a \in Range(adds) : a.x = a.skip

C10_Witness ==
    /\ pc = "fwd_exit_2"
    /\ call.backbone = "xception_71"
    /\ Len(adds) = 22
    /\ adds[22].skip.c = 1024

====
